---- MODULE Spec2Model ----
(***************************************************************************)
(* State-machine model of TextractAPI/handler.py: the four Lambda entry    *)
(* points create_file, process_file, make_callback and get_file, the       *)
(* DynamoDB table FILES_TABLE (the ledger), the S3 bucket BUCKET_NAME, the *)
(* S3 object-created notifications that trigger process_file and the       *)
(* DynamoDB stream that triggers make_callback.                            *)
(*                                                                         *)
(* Every boto3 / requests call is one atomic step; the handlers interleave *)
(* between those calls.  A call that raises sends the handler to its       *)
(* except clause (create_file, process_file) or out of the function        *)
(* (make_callback, which has no try).                                      *)
(*                                                                         *)
(* Strings that the code builds (the joined text) are sequences of pieces. *)
(* A DynamoDB item is a function whose domain is the set of attributes the *)
(* item has; the table is a function whose domain is the set of keys.      *)
(***************************************************************************)
EXTENDS Integers, Sequences, FiniteSets, TLC

\* ------------------------------------------------------------------ bounds
MaxCreate == 1     \* create_file invocations (one fresh file_id each)
MaxProc   == 2     \* process_file invocations
MaxBatch  == 2     \* stream records per make_callback invocation
MaxReplay == 1     \* re-deliveries of an already delivered stream batch

Reqs  == 1..MaxCreate
Invs  == 1..MaxProc

\* ------------------------------------------------------------ request data
HookUrl == "https://example.test/hook"

\* event['body'] of create_file: json |-> FALSE is text that json.loads
\* rejects, the others are the objects json.loads returns.
Bodies ==
  { [json |-> FALSE],
    [json |-> TRUE, obj |-> [file |-> "aGVsbG8="]],
    [json |-> TRUE, obj |-> [file |-> "aGVsbG8=", callback_url |-> HookUrl]],
    [json |-> TRUE, obj |-> [callback_url |-> HookUrl]],
    [json |-> TRUE, obj |-> [file |-> "a"]] }

\* base64.b64decode on the strings of Bodies: "aGVsbG8=" is b"hello", "a"
\* raises binascii.Error (incorrect padding).
B64Error == "binascii.Error"
b64decode(s) == IF s = "aGVsbG8=" THEN "hello" ELSE B64Error

\* Lines 34-35 without the decoding at line 35: the file field is taken as
\* it is.
ParseOkNoDecode(body) ==
  /\ body.json
  /\ "file" \in DOMAIN body.obj

\* Lines 34-35: TRUE iff json.loads, body['file'] and b64decode all succeed.
ParseOk(body) ==
  /\ body.json
  /\ "file" \in DOMAIN body.obj
  /\ b64decode(body.obj.file) # B64Error

\* The callback URL the client sent with the request, if any.
HasCallback(body) == body.json /\ "callback_url" \in DOMAIN body.obj

\* uuid.uuid4(): a fresh identifier per invocation.
uuid4(r) == r

Ids == { uuid4(r) : r \in Reqs }

\* A file_id path parameter that no create_file invocation ever drew.
UnknownId == 0

\* ---------------------------------------------------------------- textract
\* textract.detect_document_text responses.
TextractResponses ==
  { <<[BlockType |-> "PAGE"]>>,
    <<[BlockType |-> "PAGE"],
      [BlockType |-> "LINE", Text |-> "HELLO"],
      [BlockType |-> "WORD", Text |-> "HELLO"],
      [BlockType |-> "LINE", Text |-> "WORLD"]>> }

RECURSIVE Join(_)
\* " ".join(list): the pieces of the joined string.
Join(list) ==
  IF list = <<>> THEN <<>>
  ELSE IF Len(list) = 1 THEN <<list[1]>>
  ELSE <<list[1], " ">> \o Join(Tail(list))

RECURSIVE LineTexts(_)
\* [item['Text'] for item in Blocks if item['BlockType'] == 'LINE']
LineTexts(blocks) ==
  IF blocks = <<>> THEN <<>>
  ELSE IF blocks[1].BlockType = "LINE"
       THEN <<blocks[1].Text>> \o LineTexts(Tail(blocks))
       ELSE LineTexts(Tail(blocks))

\* Line 100.
DetectedText(blocks) == Join(LineTexts(blocks))

\* ------------------------------------------------------------------- state
VARIABLES
  ledger,     \* FILES_TABLE: file_id -> item (function on the keys present)
  bucket,     \* BUCKET_NAME: key -> object body
  s3events,   \* keys with an object-created notification (at-least-once)
  stream,     \* DynamoDB stream of FILES_TABLE: sequence of change records
  cursor,     \* number of stream records the event source has moved past
  replays,    \* number of re-deliveries of already delivered batches
  posts,      \* requests.post calls made, in order
  cf,         \* create_file invocations
  pf,         \* process_file invocations
  mc,         \* the make_callback invocation that has just returned
  gf          \* the get_file responses that have just been returned

vars == <<ledger, bucket, s3events, stream, cursor, replays, posts,
          cf, pf, mc, gf>>

CfIdle == [pc |-> "idle", body |-> [json |-> FALSE], file_id |-> 0,
           statusCode |-> 0, raisedAt |-> "none"]
PfIdle == [pc |-> "idle", key |-> 0, text |-> <<>>,
           statusCode |-> 0, raisedAt |-> "none"]
McNone == [lo |-> 1, hi |-> 0, replay |-> FALSE, handled |-> 0,
           raised |-> FALSE, sent |-> 0]
GfNone == {}

Init ==
  /\ ledger = <<>>
  /\ bucket = <<>>
  /\ s3events = {}
  /\ stream = <<>>
  /\ cursor = 0
  /\ replays = 0
  /\ posts = <<>>
  /\ cf = [r \in Reqs |-> CfIdle]
  /\ pf = [i \in Invs |-> PfIdle]
  /\ mc = McNone
  /\ gf = GfNone

\* mc shows a make_callback invocation in the state it returns in; gf shows
\* the get_file responses returned since the last step of another handler.
Returned == mc' = McNone /\ gf' = GfNone

\* ---------------------------------------------------------- the ledger API
\* table.put_item(Item=item): replaces the item with that key.
put_item(tbl, item) == (item.file_id :> item) @@ tbl

\* update_item with an update expression that appends the new text to the
\* stored one instead of replacing it.
update_item_append(tbl, key, sets) ==
  LET old == IF key \in DOMAIN tbl THEN tbl[key] ELSE [file_id |-> key]
      new == IF "text" \in DOMAIN sets /\ "text" \in DOMAIN old
               THEN [sets EXCEPT !.text = old.text \o @]
               ELSE sets
  IN  (key :> (new @@ old)) @@ tbl

\* update_item with an update expression that sets the status only.
update_item_status_only(tbl, key, sets) ==
  LET old == IF key \in DOMAIN tbl THEN tbl[key] ELSE [file_id |-> key]
  IN  (key :> ([status |-> sets.status] @@ old)) @@ tbl

\* table.update_item(Key, "SET ..."): sets the attributes of `sets` on the
\* item with that key, creating the item when there is none (upsert).
update_item(tbl, key, sets) ==
  LET old == IF key \in DOMAIN tbl THEN tbl[key] ELSE [file_id |-> key]
  IN  (key :> (sets @@ old)) @@ tbl

\* NewImage of a stream record: every attribute wrapped in its type tag.
Image(item) == [a \in DOMAIN item |-> [S |-> item[a]]]

\* The stream after the table went from tbl to new by a write to key: one
\* record, INSERT for a new item, MODIFY for a changed one, none when the
\* write changed nothing.
StreamAfter(tbl, new, key) ==
  IF key \notin DOMAIN tbl
    THEN Append(stream, [eventName |-> "INSERT", NewImage |-> Image(new[key])])
  ELSE IF tbl[key] # new[key]
    THEN Append(stream, [eventName |-> "MODIFY", NewImage |-> Image(new[key])])
  ELSE stream

\* A ledger write: the table and its stream change together.
LedgerWrite(new, key) ==
  /\ ledger' = new
  /\ stream' = StreamAfter(ledger, new, key)

\* ------------------------------------------------------------- create_file
\* The except clause of create_file, lines 65-71.
CfExcept(r, where) ==
  cf' = [cf EXCEPT ![r].pc = "done", ![r].statusCode = 500,
                   ![r].raisedAt = where]

\* Lines 34-38: parse the body, decode the file, draw the file_id.
CfBegin(r) ==
  /\ cf[r].pc = "idle"
  /\ \A q \in Reqs : q < r => cf[q].pc # "idle"
  /\ \E body \in Bodies :
       IF ParseOk(body)
         THEN cf' = [cf EXCEPT ![r].pc = "put_item", ![r].body = body,
                               ![r].file_id = uuid4(r)]
         ELSE cf' = [cf EXCEPT ![r].pc = "done", ![r].body = body,
                               ![r].statusCode = 500, ![r].raisedAt = "parse"]
  /\ Returned
  /\ UNCHANGED <<ledger, bucket, s3events, stream, cursor, replays, posts, pf>>

\* create_file without lines 41-45: the upload starts with no ledger record
\* written.
CfPutItemSkipped(r) ==
  /\ cf[r].pc = "put_item"
  /\ cf' = [cf EXCEPT ![r].pc = "put_object"]
  /\ Returned
  /\ UNCHANGED <<ledger, stream, bucket, s3events, cursor, replays, posts, pf>>

\* Lines 41-45: table.put_item, or the call raises.
CfPutItem(r) ==
  /\ cf[r].pc = "put_item"
  /\ \/ /\ LedgerWrite(put_item(ledger, [file_id |-> cf[r].file_id,
                                         status |-> "UPLOADING"]),
                       cf[r].file_id)
        /\ cf' = [cf EXCEPT ![r].pc = "put_object"]
     \/ /\ CfExcept(r, "put_item")
        /\ UNCHANGED <<ledger, stream>>
  /\ Returned
  /\ UNCHANGED <<bucket, s3events, cursor, replays, posts, pf>>

\* Line 49: s3_client.put_object, or the call raises.  A stored object
\* makes the bucket publish its object-created notification.
CfPutObject(r) ==
  /\ cf[r].pc = "put_object"
  /\ \/ /\ bucket' = (cf[r].file_id :> b64decode(cf[r].body.obj.file)) @@ bucket
        /\ s3events' = s3events \cup {cf[r].file_id}
        /\ cf' = [cf EXCEPT ![r].pc = "update_item"]
     \/ /\ CfExcept(r, "put_object")
        /\ UNCHANGED <<bucket, s3events>>
  /\ Returned
  /\ UNCHANGED <<ledger, stream, cursor, replays, posts, pf>>

\* Lines 53-64: table.update_item sets status UPLOADED, then return 200; or
\* the call raises.
CfUpdateItem(r) ==
  /\ cf[r].pc = "update_item"
  /\ \/ /\ LedgerWrite(update_item(ledger, cf[r].file_id,
                                   [status |-> "UPLOADED"]),
                       cf[r].file_id)
        /\ cf' = [cf EXCEPT ![r].pc = "done", ![r].statusCode = 200]
     \/ /\ CfExcept(r, "update_item")
        /\ UNCHANGED <<ledger, stream>>
  /\ Returned
  /\ UNCHANGED <<bucket, s3events, cursor, replays, posts, pf>>

create_file(r) ==
  CfBegin(r) \/ CfPutItem(r) \/ CfPutObject(r) \/ CfUpdateItem(r)

\* ------------------------------------------------------------ process_file
\* The except clause of process_file, lines 115-120.
PfExcept(i, where) ==
  pf' = [pf EXCEPT ![i].pc = "done", ![i].statusCode = 500,
                   ![i].raisedAt = where]

\* Lines 84-88: the invocation starts on an S3 notification (first delivery
\* or a replay) and reads bucket and key from it, or on an event without
\* the Records structure, for which the subscripts raise.
PfBegin(i) ==
  /\ pf[i].pc = "idle"
  /\ \A j \in Invs : j < i => pf[j].pc # "idle"
  /\ \/ \E key \in s3events :
          pf' = [pf EXCEPT ![i].pc = "get_object", ![i].key = key]
     \/ PfExcept(i, "event")
  /\ Returned
  /\ UNCHANGED <<ledger, bucket, s3events, stream, cursor, replays, posts, cf>>

\* Lines 91-92 with an except clause that marks the document FAILED in the
\* ledger.
PfGetObjectMarksFailed(i) ==
  /\ pf[i].pc = "get_object"
  /\ \/ /\ pf[i].key \in DOMAIN bucket
        /\ pf' = [pf EXCEPT ![i].pc = "detect"]
        /\ UNCHANGED <<ledger, stream>>
     \/ /\ PfExcept(i, "get_object")
        /\ LedgerWrite(update_item(ledger, pf[i].key, [status |-> "FAILED"]),
                       pf[i].key)
  /\ Returned
  /\ UNCHANGED <<bucket, s3events, cursor, replays, posts, cf>>

\* Lines 91-92: s3_client.get_object and read, or the call raises.
PfGetObject(i) ==
  /\ pf[i].pc = "get_object"
  /\ \/ /\ pf[i].key \in DOMAIN bucket
        /\ pf' = [pf EXCEPT ![i].pc = "detect"]
     \/ PfExcept(i, "get_object")
  /\ Returned
  /\ UNCHANGED <<ledger, bucket, s3events, stream, cursor, replays, posts, cf>>

\* Lines 95-100: textract.detect_document_text and the join of its LINE
\* blocks, or the call raises.
PfDetect(i) ==
  /\ pf[i].pc = "detect"
  /\ \/ \E resp \in TextractResponses :
          pf' = [pf EXCEPT ![i].pc = "update_item",
                           ![i].text = DetectedText(resp)]
     \/ PfExcept(i, "detect")
  /\ Returned
  /\ UNCHANGED <<ledger, bucket, s3events, stream, cursor, replays, posts, cf>>

\* Lines 103-114 with ':s' set to COMPLETED, the status line 137 tests for.
PfUpdateItemCompleted(i) ==
  /\ pf[i].pc = "update_item"
  /\ \/ /\ LedgerWrite(update_item(ledger, pf[i].key,
                                   [status |-> "COMPLETED",
                                    text |-> pf[i].text]),
                       pf[i].key)
        /\ pf' = [pf EXCEPT ![i].pc = "done", ![i].statusCode = 200]
     \/ /\ PfExcept(i, "update_item")
        /\ UNCHANGED <<ledger, stream>>
  /\ Returned
  /\ UNCHANGED <<bucket, s3events, cursor, replays, posts, cf>>

\* Lines 103-114: table.update_item sets status PROCESSED and text, then
\* return 200; or the call raises.
PfUpdateItem(i) ==
  /\ pf[i].pc = "update_item"
  /\ \/ /\ LedgerWrite(update_item(ledger, pf[i].key,
                                   [status |-> "PROCESSED",
                                    text |-> pf[i].text]),
                       pf[i].key)
        /\ pf' = [pf EXCEPT ![i].pc = "done", ![i].statusCode = 200]
     \/ /\ PfExcept(i, "update_item")
        /\ UNCHANGED <<ledger, stream>>
  /\ Returned
  /\ UNCHANGED <<bucket, s3events, cursor, replays, posts, cf>>

process_file(i) ==
  PfBegin(i) \/ PfGetObject(i) \/ PfDetect(i) \/ PfUpdateItem(i)

\* ----------------------------------------------------------- make_callback
\* Line 137 testing for the status that process_file writes.
ShouldNotifyProcessed(status) == status = "PROCESSED"

\* Line 137: the status for which a record is notified.
ShouldNotify(status) == status = "COMPLETED"

PostOutcomes == {"2xx", "non2xx", "raise"}

\* Lines 138-141 for one record: the subscripts raise KeyError when the
\* image lacks the attribute, requests.post raises on a network failure.
RecordRaises(image, outcome) ==
  \/ "callback_url" \notin DOMAIN image
  \/ "text" \notin DOMAIN image
  \/ outcome = "raise"

\* Line 141: the POST of one record, if the code gets as far as making it.
RecordPosts(image, outcome) ==
  IF "callback_url" \in DOMAIN image /\ "text" \in DOMAIN image
    THEN <<[url |-> image.callback_url.S,
            json |-> [file_id |-> image.file_id.S, text |-> image.text.S],
            outcome |-> outcome]>>
    ELSE <<>>

\* Lines 132-137: the record reaches the body of the inner if.
Notifies(record) ==
  /\ record.eventName = "MODIFY"
  /\ ShouldNotify(record.NewImage.status.S)

RECURSIVE HandleRecords(_, _, _)
\* Lines 131-142: the loop over event['Records'], from the k-th record on.
\* An exception leaves the loop and the function.
HandleRecords(records, outcomes, k) ==
  IF k > Len(records) THEN [handled |-> 0, raised |-> FALSE, sent |-> <<>>]
  ELSE IF ~Notifies(records[k])
    THEN LET rest == HandleRecords(records, outcomes, k + 1)
         IN  [rest EXCEPT !.handled = @ + 1]
  ELSE IF RecordRaises(records[k].NewImage, outcomes[k])
    THEN [handled |-> 0, raised |-> TRUE,
          sent |-> RecordPosts(records[k].NewImage, outcomes[k])]
  ELSE LET rest == HandleRecords(records, outcomes, k + 1)
       IN  [rest EXCEPT !.handled = @ + 1,
                        !.sent = RecordPosts(records[k].NewImage,
                                             outcomes[k]) \o @]

\* One make_callback invocation on the stream records lo..hi.
McRun(lo, hi) ==
  \E outcomes \in [1..(hi - lo + 1) -> PostOutcomes] :
    LET res == HandleRecords(SubSeq(stream, lo, hi), outcomes, 1)
    IN  /\ posts' = posts \o res.sent
        /\ mc' = [lo |-> lo, hi |-> hi, replay |-> hi <= cursor,
                  handled |-> res.handled, raised |-> res.raised,
                  sent |-> Len(res.sent)]
        /\ cursor' = IF res.raised \/ hi <= cursor THEN cursor ELSE hi
        /\ gf' = GfNone

\* The event source mapping hands make_callback the next batch of the
\* stream; a batch whose invocation raised is handed over again.
McNext ==
  /\ cursor < Len(stream)
  /\ \E hi \in (cursor + 1)..Len(stream) :
       /\ hi - cursor <= MaxBatch
       /\ McRun(cursor + 1, hi)
  /\ UNCHANGED <<ledger, bucket, s3events, stream, replays, cf, pf>>

\* At-least-once delivery: records already handled are delivered again.
McReplay ==
  /\ replays < MaxReplay
  /\ \E lo \in 1..cursor : \E hi \in lo..cursor :
       /\ hi - lo + 1 <= MaxBatch
       /\ McRun(lo, hi)
  /\ replays' = replays + 1
  /\ UNCHANGED <<ledger, bucket, s3events, stream, cf, pf>>

make_callback == McNext \/ McReplay

\* ---------------------------------------------------------------- get_file
\* Lines 157-169 without the else branch: an unknown file_id answered with
\* an empty document.
GetResponseDefault(tbl, file_id) ==
  [statusCode |-> 200,
   body |-> [file_id |-> file_id,
             status |-> IF file_id \in DOMAIN tbl
                          THEN tbl[file_id].status ELSE "UPLOADING",
             text |-> IF file_id \in DOMAIN tbl /\ "text" \in DOMAIN tbl[file_id]
                        THEN [S |-> tbl[file_id].text]
                        ELSE [null |-> TRUE]]]

\* Lines 157-169: the response for the table contents read at line 157.
GetResponse(tbl, file_id) ==
  IF file_id \in DOMAIN tbl
    THEN [statusCode |-> 200,
          body |-> [file_id |-> file_id,
                    status |-> tbl[file_id].status,
                    text |-> IF "text" \in DOMAIN tbl[file_id]
                               THEN [S |-> tbl[file_id].text]
                               ELSE [null |-> TRUE]]]
    ELSE [statusCode |-> 404, body |-> [error |-> "File not found"]]

\* Lines 154-169.
get_file(file_id) ==
  /\ gf' = gf \cup {[file_id |-> file_id] @@ GetResponse(ledger, file_id)}
  /\ mc' = McNone
  /\ UNCHANGED <<ledger, bucket, s3events, stream, cursor, replays, posts,
                 cf, pf>>

\* ------------------------------------------------------------------ system
Next ==
  \/ \E r \in Reqs : create_file(r)
  \/ \E i \in Invs : process_file(i)
  \/ make_callback
  \/ \E file_id \in Ids \cup {UnknownId} : get_file(file_id)

Spec == Init /\ [][Next]_vars

\* ================================================================== claims
\* The position of a status in the lifecycle of the specification, section 3.
Rank(status) ==
  CASE status = "CREATED"    -> 0
    [] status = "UPLOADING"  -> 1
    [] status = "UPLOADED"   -> 2
    [] status = "PROCESSING" -> 3
    [] status = "PROCESSED"  -> 4
    [] status = "COMPLETED"  -> 5
    [] status = "FAILED"     -> 6

\* The create_file request that drew file_id carried a callback URL.
IngestedWithCallback(file_id) ==
  \E r \in Reqs : /\ cf[r].pc # "idle"
                  /\ cf[r].file_id = file_id
                  /\ HasCallback(cf[r].body)

\* The POSTs made so far for file_id.
PostsFor(file_id) == { n \in 1..Len(posts) : posts[n].json.file_id = file_id }

\* A stream record that reports a MODIFY into the given status.
ModifyInto(record, status) ==
  record.eventName = "MODIFY" /\ record.NewImage.status.S = status

\* C1: once create_file has returned on a valid request, the ledger record
\* it created is UPLOADED or later, or FAILED, never CREATED or UPLOADING,
\* also when the blob put failed after the record was written.
C1_ReturnedNeverUploading ==
  \A r \in Reqs :
    (cf[r].pc = "done" /\ ParseOk(cf[r].body) /\ cf[r].file_id \in DOMAIN ledger)
      => ledger[cf[r].file_id].status \notin {"CREATED", "UPLOADING"}

\* C2: under every interleaving of create_file and process_file the status of
\* a document only moves forward; it never goes from PROCESSED back to
\* UPLOADED.
C2_StatusOnlyForward ==
  [][\A id \in DOMAIN ledger :
       Rank(ledger[id].status) <= Rank(ledger'[id].status)]_vars

\* C3: a ledger record has the text attribute only if its status is PROCESSED
\* or later.
C3_TextOnlyFromProcessed ==
  \A id \in DOMAIN ledger :
    "text" \in DOMAIN ledger[id]
      => ledger[id].status \in {"PROCESSED", "COMPLETED"}

\* C5: when a ledger-change event into PROCESSED of a document ingested with
\* a callback URL is delivered again, exactly one callback POST has been made
\* for the document.
C5_ExactlyOnePost ==
  \A n \in mc.lo..mc.hi :
    (/\ mc.replay
     /\ ModifyInto(stream[n], "PROCESSED")
     /\ IngestedWithCallback(stream[n].NewImage.file_id.S))
      => Cardinality(PostsFor(stream[n].NewImage.file_id.S)) = 1

\* Every handler has returned, no call raised, every notification and every
\* stream record has been delivered.
AllDeliveredNoFailure ==
  /\ \A r \in Reqs : cf[r].pc = "done" /\ cf[r].statusCode = 200
  /\ \A i \in Invs : pf[i].pc = "done" /\ pf[i].statusCode = 200
  /\ \A key \in s3events : \E i \in Invs : pf[i].key = key
  /\ cursor = Len(stream)

\* C6: a document ingested with a callback URL, with every external call
\* succeeding and every event delivered, has had a POST of {file_id, text}
\* sent to that URL and is in state COMPLETED.
C6_NotifiedAndCompleted ==
  AllDeliveredNoFailure =>
    \A r \in Reqs :
      HasCallback(cf[r].body) =>
        /\ \E n \in PostsFor(cf[r].file_id) :
             /\ posts[n].url = cf[r].body.obj.callback_url
             /\ posts[n].json.text = ledger[cf[r].file_id].text
        /\ ledger[cf[r].file_id].status = "COMPLETED"

\* C7: when the blob fetch or the extraction of process_file raises, the
\* document of the event goes to FAILED.
C7_ExtractionFailureMarksFailed ==
  [][\A i \in Invs :
       (/\ pf[i].pc \in {"get_object", "detect"}
        /\ pf'[i].pc = "done"
        /\ pf'[i].raisedAt \in {"get_object", "detect"}
        /\ pf[i].key \in DOMAIN ledger)
         => ledger'[pf[i].key].status = "FAILED"]_vars

\* C8: make_callback POSTs for a stream record only if it is a MODIFY whose
\* new image has status PROCESSED, and it does POST for every such record of
\* a document that has a callback URL and has not been notified.
C8_PostIffModifyIntoProcessed ==
  /\ \A m \in (Len(posts) - mc.sent + 1)..Len(posts) :
       \E n \in mc.lo..mc.hi :
         /\ ModifyInto(stream[n], "PROCESSED")
         /\ stream[n].NewImage.file_id.S = posts[m].json.file_id
  /\ \A n \in mc.lo..mc.hi :
       (/\ ModifyInto(stream[n], "PROCESSED")
        /\ IngestedWithCallback(stream[n].NewImage.file_id.S))
         => PostsFor(stream[n].NewImage.file_id.S) # {}

\* A stream record that calls for a notification (a MODIFY into PROCESSED,
\* or into the COMPLETED that line 137 tests for) of a document whose ledger
\* record has no callback URL.
TriggerWithoutUrl(record) ==
  /\ ModifyInto(record, "PROCESSED") \/ ModifyInto(record, "COMPLETED")
  /\ "callback_url" \notin DOMAIN record.NewImage

\* C9: for a document with no callback URL, a ledger-change event that would
\* otherwise trigger notification is a no-op: make_callback sends no POST for
\* it, does not raise on it, and goes on to the records after it.
C9_NoUrlIsNoOp ==
  \A n \in mc.lo..mc.hi :
    TriggerWithoutUrl(stream[n]) =>
      /\ PostsFor(stream[n].NewImage.file_id.S) = {}
      /\ ~(mc.raised /\ mc.lo + mc.handled = n)
      /\ (mc.handled >= n - mc.lo => mc.handled >= n - mc.lo + 1)
      /\ (n < mc.hi /\ ~mc.raised => mc.handled = mc.hi - mc.lo + 1)

\* C9 witness: a batch whose first record is such a trigger and whose second
\* record was handled after it.
C9_Witness ==
  /\ mc.hi > mc.lo
  /\ TriggerWithoutUrl(stream[mc.lo])
  /\ mc.handled = 2
  /\ ~mc.raised

\* C10: get_file answers 404 without a document for a file_id that has no
\* ledger record, and 200 with exactly the stored status and text for one
\* that has.
C10_GetReturnsLedger ==
  \A resp \in gf :
    IF resp.file_id \in DOMAIN ledger
      THEN /\ resp.statusCode = 200
           /\ resp.body.file_id = resp.file_id
           /\ resp.body.status = ledger[resp.file_id].status
           /\ resp.body.text =
                IF "text" \in DOMAIN ledger[resp.file_id]
                  THEN [S |-> ledger[resp.file_id].text]
                  ELSE [null |-> TRUE]
      ELSE /\ resp.statusCode = 404
           /\ DOMAIN resp.body = {"error"}

\* C10 witness: a 404 for an unknown file_id next to a 200 that carries the
\* text of a processed document.
C10_Witness ==
  /\ \E resp \in gf : resp.file_id = UnknownId /\ resp.statusCode = 404
  /\ \E resp \in gf : /\ resp.statusCode = 200
                      /\ resp.body.status = "PROCESSED"
                      /\ resp.body.text = [S |-> <<"HELLO", " ", "WORLD">>]

\* Invocation i of process_file makes its ledger update in this step.
PfWrites(i) ==
  /\ pf[i].pc = "update_item"
  /\ pf'[i].pc = "done"
  /\ pf'[i].statusCode = 200

\* Another invocation has already returned 200 for the same notification
\* with the same extracted text.
DuplicateOf(i) ==
  \E j \in Invs \ {i} :
    /\ pf[j].pc = "done"
    /\ pf[j].statusCode = 200
    /\ pf[j].key = pf[i].key
    /\ pf[j].text = pf[i].text

\* The ledger record of key is what a delivery with this text leaves.
HoldsResult(key, text) ==
  /\ key \in DOMAIN ledger
  /\ ledger[key].status = "PROCESSED"
  /\ "text" \in DOMAIN ledger[key]
  /\ ledger[key].text = text

C12_TextWrittenOnce ==
  [][\A id \in DOMAIN ledger :
       "text" \in DOMAIN ledger[id]
         => /\ "text" \in DOMAIN ledger'[id]
            /\ ledger'[id].text = ledger[id].text]_vars

\* An earlier invocation on the same notification returned 500 because the
\* extraction raised.
ExtractionFailedBefore(i) ==
  \E j \in Invs : /\ j < i
                  /\ pf[j].pc = "done"
                  /\ pf[j].raisedAt = "detect"
                  /\ pf[j].key = pf[i].key

\* C13: when the extraction failed in the first process_file invocation and
\* succeeds in the second, the second leaves the document PROCESSED with the
\* text of the successful extraction.
C13_RetryAfterFailureProcesses ==
  [][\A i \in Invs :
       (PfWrites(i) /\ ExtractionFailedBefore(i))
         => /\ pf[i].key \in DOMAIN ledger'
            /\ ledger'[pf[i].key].status = "PROCESSED"
            /\ "text" \in DOMAIN ledger'[pf[i].key]
            /\ ledger'[pf[i].key].text = pf[i].text]_vars

\* C13 witness: the first invocation failed in the extraction, the second
\* returned 200, and the document is PROCESSED with the second's text.
C13_Witness ==
  \E i \in Invs : \E j \in Invs :
    /\ j < i
    /\ pf[j].pc = "done" /\ pf[j].raisedAt = "detect"
    /\ pf[i].pc = "done" /\ pf[i].statusCode = 200
    /\ pf[i].key = pf[j].key
    /\ pf[i].text = <<"HELLO", " ", "WORLD">>
    /\ HoldsResult(pf[i].key, pf[i].text)

\* A request body that is not valid JSON, lacks the file field, or whose
\* file does not decode.
Malformed(body) ==
  \/ ~body.json
  \/ "file" \notin DOMAIN body.obj
  \/ b64decode(body.obj.file) = B64Error

\* C14: create_file answers a malformed request with 400, a blob-store or
\* ledger failure with 500, and 200 only when both the ledger record and the
\* blob were written.
C14_StatusCodes ==
  \A r \in Reqs :
    cf[r].pc = "done" =>
      /\ Malformed(cf[r].body) => cf[r].statusCode = 400
      /\ cf[r].raisedAt \in {"put_item", "put_object", "update_item"}
           => cf[r].statusCode = 500
      /\ cf[r].statusCode = 200
           => /\ cf[r].file_id \in DOMAIN ledger
              /\ cf[r].file_id \in DOMAIN bucket

\* A create_file invocation drew file_id and its put_item succeeded.
CreatedByIngest(file_id) ==
  \E r \in Reqs : /\ cf[r].file_id = file_id
                  /\ cf[r].pc \in {"put_object", "update_item", "done"}
                  /\ cf[r].raisedAt # "put_item"

\* C16: every object in the blob store has a ledger record with the same id,
\* and every ledger record was created by ingest: process_file's update never
\* inserts one.
C16_BlobHasLedgerRecord ==
  /\ DOMAIN bucket \subseteq DOMAIN ledger
  /\ \A id \in DOMAIN ledger : CreatedByIngest(id)
  /\ \A n \in 1..Len(stream) :
       stream[n].eventName = "INSERT"
         => stream[n].NewImage.status.S = "UPLOADING"

\* C16 witness: process_file has updated the record of a stored object.
C16_Witness ==
  \E i \in Invs : /\ pf[i].pc = "done"
                  /\ pf[i].statusCode = 200
                  /\ pf[i].key \in DOMAIN bucket
                  /\ pf[i].key \in DOMAIN ledger

\* C17: the status of every ledger record is UPLOADING, UPLOADED or
\* PROCESSED, no stream record reports COMPLETED, and make_callback has made
\* no POST.
C17_OnlyThreeStatuses ==
  /\ \A id \in DOMAIN ledger :
       ledger[id].status \in {"UPLOADING", "UPLOADED", "PROCESSED"}
  /\ \A n \in 1..Len(stream) : stream[n].NewImage.status.S # "COMPLETED"
  /\ posts = <<>>

\* C17 witness: make_callback has handled a MODIFY into PROCESSED.
C17_Witness ==
  /\ mc.handled > 0
  /\ \E n \in mc.lo..(mc.lo + mc.handled - 1) :
       ModifyInto(stream[n], "PROCESSED")
  /\ \E id \in DOMAIN ledger : ledger[id].status = "PROCESSED"

\* C18: a process_file invocation that fails before its ledger update
\* returns 500 and leaves the ledger as it was; the only ledger write of
\* process_file is the update of the event's key to PROCESSED with the text.
C18_FailureLeavesLedger ==
  [][\A i \in Invs :
       pf'[i] # pf[i] =>
         /\ (pf'[i].pc = "done"
             /\ pf'[i].raisedAt \in {"event", "get_object", "detect"})
              => /\ pf'[i].statusCode = 500
                 /\ ledger' = ledger
                 /\ stream' = stream
         /\ ledger' # ledger
              => /\ PfWrites(i)
                 /\ DOMAIN ledger' = DOMAIN ledger \cup {pf[i].key}
                 /\ \A id \in DOMAIN ledger \ {pf[i].key} :
                      ledger'[id] = ledger[id]
                 /\ ledger'[pf[i].key].status = "PROCESSED"
                 /\ ledger'[pf[i].key].text = pf[i].text]_vars

\* C18 witness: an invocation has returned 500 from a failed blob fetch or
\* extraction and the document still has the status create_file gave it.
C18_Witness ==
  \E i \in Invs : /\ pf[i].pc = "done"
                  /\ pf[i].statusCode = 500
                  /\ pf[i].raisedAt \in {"get_object", "detect"}
                  /\ pf[i].key \in DOMAIN ledger
                  /\ ledger[pf[i].key].status = "UPLOADED"
                  /\ "text" \notin DOMAIN ledger[pf[i].key]

\* C19: create_file validates before it writes: a request whose body fails
\* to parse or decode ends in the except clause with no ledger record
\* created and no blob stored.
C19_ValidateBeforeWrite ==
  [][\A r \in Reqs :
       (cf[r].pc = "idle" /\ cf'[r].pc # "idle" /\ Malformed(cf'[r].body))
         => /\ cf'[r].pc = "done"
            /\ cf'[r].raisedAt = "parse"
            /\ ledger' = ledger
            /\ bucket' = bucket
            /\ stream' = stream
            /\ s3events' = s3events]_vars

\* C19 witness: a request whose file does not decode has been answered, with
\* nothing in the ledger or the bucket for it.
C19_Witness ==
  \E r \in Reqs : /\ cf[r].pc = "done"
                  /\ cf[r].body = [json |-> TRUE, obj |-> [file |-> "a"]]
                  /\ cf[r].raisedAt = "parse"
                  /\ cf[r].file_id \notin DOMAIN ledger
                  /\ cf[r].file_id \notin DOMAIN bucket
====
